---- MODULE Spec2Model ----
(***************************************************************************)
(* A model of BN.py: a boolean Bayesian network (class BN) with its        *)
(* construction (addNode), the topological sort, and the two inference     *)
(* engines enum_ask (enumeration) and elim_ask (variable elimination).     *)
(*                                                                         *)
(* Variable names are modelled by the integers 1..NumNames; the            *)
(* alphabetical order of the names is the order of the integers            *)
(* (1 = "A", 2 = "B", ...).  Probabilities are exact rationals, a pair     *)
(* <<numerator, denominator>>.  A Python list is a sequence, a dict a      *)
(* function, a tuple of booleans a sequence of BOOLEAN.                    *)
(***************************************************************************)
EXTENDS Integers, Sequences, FiniteSets, TLC

\* ------------------------------------------------------------------ bounds
NumNames == 3
MaxParents == 2
MaxEvidence == 2
MaxDangling == 1
MaxFactors == 3
MaxSeed == 2

Names == 1..NumNames

\* --------------------------------------------------------- exact rationals
\* The value an expression has when its evaluation raised KeyError.
KeyErr == <<0, 0>>

IsErr(a) == a[2] = 0

RMul(a, b) == IF IsErr(a) \/ IsErr(b) THEN KeyErr ELSE <<a[1] * b[1], a[2] * b[2]>>

RAdd(a, b) ==
    IF IsErr(a) \/ IsErr(b) THEN KeyErr
    ELSE IF a[2] = b[2] THEN <<a[1] + b[1], a[2]>>
    ELSE <<a[1] * b[2] + b[1] * a[2], a[2] * b[2]>>

\* 1 - a
RCompl(a) == IF IsErr(a) THEN KeyErr ELSE <<a[2] - a[1], a[2]>>

REq(a, b) == a[1] * b[2] = b[1] * a[2]

RIsZero(a) == a[1] = 0

ROne == <<1, 1>>

RZero == <<0, 1>>

\* The probabilities a caller writes into a model: 0 and 1/4.
Probs == {<<0, 4>>, <<1, 4>>}

\* 'prob': -1 marks a node that has parents (line 141).
NoProb == <<-1, 1>>

\* ------------------------------------------------------------ list helpers
RECURSIVE Pow2(_)
Pow2(n) == IF n = 0 THEN 1 ELSE 2 * Pow2(n - 1)

Range(s) == {s[i] : i \in 1..Len(s)}

Min(S) == CHOOSE x \in S : \A y \in S : x <= y

\* list(S) followed by list.sort()
RECURSIVE SortedSeq(_)
SortedSeq(S) == IF S = {} THEN <<>> ELSE <<Min(S)>> \o SortedSeq(S \ {Min(S)})

\* del s[i]
DelAt(s, i) == [k \in 1..(Len(s) - 1) |-> IF k < i THEN s[k] ELSE s[k + 1]]

\* Sequences over S without a repeated element, of length at most n.
InjSeqs(S, n) ==
    UNION {{s \in [1..k -> S] : \A i, j \in 1..k : i # j => s[i] # s[j]} : k \in 0..n}

\* All boolean tuples of a length: what genpermutations returns, as a set (the
\* order of the list is that of a Python set and no caller depends on it).
genpermutations(length) == [1..length -> BOOLEAN]

\* itertools.product([True, False], repeat=k) as a list: True before False,
\* the first position varying slowest.
TruthTable(k) ==
    [i \in 1..Pow2(k) |-> [j \in 1..k |-> ((i - 1) \div Pow2(k - j)) % 2 = 0]]

\* ------------------------------------------------------------ the network
VARIABLES
    net,       \* self.net: name -> [parents, children, prob, condprob]
    op,        \* the operation that just ran, "idle" between calls
    call,      \* its arguments
    outcome,   \* "ok", or the exception it raised
    ret,       \* what it returned (when outcome = "ok")
    before,    \* self.net when the operation was called
    callerE,   \* the caller's evidence mapping when the operation ended
    trace,     \* elim_ask: one record per finished iteration of its loop
    final      \* elim_ask: whether its loop ended, the factors then, their product

vars == <<net, op, call, outcome, ret, before, callerE, trace, final>>

EmptyMap == <<>>

\* no elimination loop has ended
NoFinal == [ended |-> FALSE, factors |-> <<>>, result |-> <<>>]

\* the node stored for a variable without parents (lines 119-124)
RootNode(prob) ==
    [parents |-> <<>>, children |-> <<>>, prob |-> prob, condprob |-> EmptyMap]

\* the node stored for a variable with parents (lines 138-143)
InnerNode(parents, condprob) ==
    [parents |-> parents, children |-> <<>>, prob |-> NoProb, condprob |-> condprob]

\* len(prob) of a probability spec
SpecLen(spec) ==
    IF spec.type = "list" THEN Len(spec.v) ELSE Cardinality(DOMAIN spec.v)

\* lines 133-136: a dict is taken as it is, a list is zipped with the truth table
CondProbOf(spec, k) ==
    IF spec.type = "dict" THEN spec.v
    ELSE LET tt == TruthTable(k)
             n  == IF Len(spec.v) < Len(tt) THEN Len(spec.v) ELSE Len(tt)
         IN  [t \in {tt[i] : i \in 1..n} |->
                 spec.v[CHOOSE i \in 1..n : tt[i] = t]]

\* lines 128-131: the loop over the parents; it stops at the first parent that
\* is not in the net, after it has appended name to the parents before it.
RECURSIVE LinkParents(_, _, _, _)
LinkParents(n, name, parents, i) ==
    IF i > Len(parents) THEN [net |-> n, raised |-> FALSE]
    ELSE IF parents[i] \notin DOMAIN n THEN [net |-> n, raised |-> TRUE]
    ELSE LinkParents(
            [n EXCEPT ![parents[i]].children = Append(@, name)],
            name, parents, i + 1)

\* addNode(name, parents, prob): the net it leaves and how it ended.
addNode(n, name, parents, spec) ==
    IF Len(parents) = 0 THEN
        [net |-> (name :> RootNode(spec.v)) @@ n, outcome |-> "ok"]
    ELSE IF SpecLen(spec) # Pow2(Len(parents)) THEN
        [net |-> n, outcome |-> "AssertionError"]
    ELSE LET linked == LinkParents(n, name, parents, 1) IN
        IF linked.raised THEN [net |-> linked.net, outcome |-> "ValueError"]
        ELSE [net |-> (name :> InnerNode(parents, CondProbOf(spec, Len(parents))))
                        @@ linked.net,
              outcome |-> "ok"]

\* ---------------------------------------------------------------- toposort
\* a pass that places a variable without looking at its parents
RECURSIVE TopoPassAnyOrder(_, _, _, _)
TopoPassAnyOrder(n, variables, i, l) ==
    IF i > Len(variables) THEN l
    ELSE IF variables[i] \notin Range(l)
         THEN TopoPassAnyOrder(n, variables, i + 1, Append(l, variables[i]))
         ELSE TopoPassAnyOrder(n, variables, i + 1, l)

\* lines 168-173: one pass of the for loop over the sorted variables
RECURSIVE TopoPass(_, _, _, _)
TopoPass(n, variables, i, l) ==
    IF i > Len(variables) THEN l
    ELSE LET v == variables[i] IN
        IF v \notin Range(l)
           /\ \A k \in 1..Len(n[v].parents) : n[v].parents[k] \in Range(l)
        THEN TopoPass(n, variables, i + 1, Append(l, v))
        ELSE TopoPass(n, variables, i + 1, l)

\* lines 167-174: the while loop.  A pass that places nothing would repeat for
\* ever; that is the value <<0>> (0 is no variable name).
Diverges == <<0>>

RECURSIVE TopoLoop(_, _, _)
TopoLoop(n, variables, l) ==
    IF Cardinality(Range(l)) >= Len(variables) THEN l
    ELSE LET l2 == TopoPass(n, variables, 1, l) IN
        IF l2 = l THEN Diverges ELSE TopoLoop(n, variables, l2)

toposort(n) == TopoLoop(n, SortedSeq(DOMAIN n), <<>>)

\* ------------------------------------------------------------- querygiven
\* querygiven(Y, e): P(Y = e[Y] | parents as in e); KeyErr when e lacks Y or a
\* parent of Y, or the CPT has no entry for the parents' values.
querygiven(n, Y, e) ==
    IF n[Y].prob # NoProb THEN
        IF Y \notin DOMAIN e THEN KeyErr
        ELSE IF e[Y] THEN n[Y].prob ELSE RCompl(n[Y].prob)
    ELSE
        IF \E k \in 1..Len(n[Y].parents) : n[Y].parents[k] \notin DOMAIN e
        THEN KeyErr
        ELSE LET parents == [k \in 1..Len(n[Y].parents) |-> e[n[Y].parents[k]]] IN
            IF parents \notin DOMAIN n[Y].condprob \/ Y \notin DOMAIN e THEN KeyErr
            ELSE IF e[Y] THEN n[Y].condprob[parents]
                 ELSE RCompl(n[Y].condprob[parents])

\* ------------------------------------------------------------------ factors
\* A factor is ([vars], {entries}): [scope |-> list of names, table |-> dict].
Factor(scope, table) == [scope |-> scope, table |-> table]

\* tuple(asg[v] for v in variables)
Project(asg, variables) == [k \in 1..Len(variables) |-> asg[variables[k]]]

\* the assignment the inner loop writes for a permutation: zip(allvars, perm)
Zip(allvars, perm) == [v \in Range(allvars) |-> perm[CHOOSE k \in 1..Len(allvars) : allvars[k] = v]]

\* a table with a KeyErr entry stands for the KeyError its construction raised
TableRaised(table) == \E key \in DOMAIN table : IsErr(table[key])

\* makefactor(var, factorvars, e), with variables = factorvars[var]
makefactor(n, var, variables, e) ==
    LET sorted  == SortedSeq(Range(variables))
        allvars == Append(n[var].parents, var)
        perms   == {perm \in genpermutations(Len(allvars)) :
                       \A k \in 1..Len(allvars) :
                           allvars[k] \in DOMAIN e => e[allvars[k]] = perm[k]}
        keys    == {Project(Zip(allvars, perm), sorted) : perm \in perms}
    IN  Factor(sorted,
               [key \in keys |->
                   LET perm == CHOOSE q \in perms : Project(Zip(allvars, q), sorted) = key
                   IN  querygiven(n, var, Zip(allvars, perm))])

\* pointwise without line 308 (newvariables.sort()): the union in reverse order
pointwiseUnsorted(factor1, factor2) ==
    LET union        == SortedSeq(Range(factor1.scope) \cup Range(factor2.scope))
        newvariables == [k \in 1..Len(union) |-> union[Len(union) + 1 - k]]
    IN  Factor(newvariables,
               [perm \in genpermutations(Len(newvariables)) |->
                   LET asg  == Zip(newvariables, perm)
                       key1 == Project(asg, factor1.scope)
                       key2 == Project(asg, factor2.scope)
                   IN  IF key1 \in DOMAIN factor1.table /\ key2 \in DOMAIN factor2.table
                       THEN RMul(factor1.table[key1], factor2.table[key2])
                       ELSE KeyErr])

\* pointwise(var, factor1, factor2); var is not used by the code
pointwise(factor1, factor2) ==
    LET newvariables == SortedSeq(Range(factor1.scope) \cup Range(factor2.scope))
    IN  Factor(newvariables,
               [perm \in genpermutations(Len(newvariables)) |->
                   LET asg  == Zip(newvariables, perm)
                       key1 == Project(asg, factor1.scope)
                       key2 == Project(asg, factor2.scope)
                   IN  IF key1 \in DOMAIN factor1.table /\ key2 \in DOMAIN factor2.table
                       THEN RMul(factor1.table[key1], factor2.table[key2])
                       ELSE KeyErr])

\* lines 345-347: the product of a non-empty list of factors, left to right
RECURSIVE PointwiseAll(_, _, _)
PointwiseAll(result, fs, i) ==
    IF i > Len(fs) THEN result ELSE PointwiseAll(pointwise(result, fs[i]), fs, i + 1)

\* entry[:j] + entry[j+1:]
DropAt(entry, j) == [k \in 1..(Len(entry) - 1) |-> IF k < j THEN entry[k] ELSE entry[k + 1]]

\* a sum that takes the entry for True alone (prob = prob1)
SumAtTrueOnly(factor, j) ==
    Factor(DropAt(factor.scope, j),
           [newkey \in {DropAt(entry, j) : entry \in DOMAIN factor.table} |->
               LET entry == CHOOSE en \in DOMAIN factor.table : DropAt(en, j) = newkey
               IN  factor.table[[entry EXCEPT ![j] = TRUE]]])

\* lines 359-373: the factor with position j summed out
SumAt(factor, j) ==
    Factor(DropAt(factor.scope, j),
           [newkey \in {DropAt(entry, j) : entry \in DOMAIN factor.table} |->
               LET entry == CHOOSE en \in DOMAIN factor.table : DropAt(en, j) = newkey
                   t     == [entry EXCEPT ![j] = TRUE]
                   f     == [entry EXCEPT ![j] = FALSE]
               IN  IF t \in DOMAIN factor.table /\ f \in DOMAIN factor.table
                   THEN RAdd(factor.table[t], factor.table[f])
                   ELSE KeyErr])

\* the loop over the positions without lines 377-378: an emptied factor stays
RECURSIVE SumPositionsKeepEmpty(_, _, _, _, _)
SumPositionsKeepEmpty(fs, i, factor, j, var) ==
    IF j > Len(factor.scope) THEN fs
    ELSE IF factor.scope[j] # var \/ i > Len(fs)
         THEN SumPositionsKeepEmpty(fs, i, factor, j + 1, var)
         ELSE SumPositionsKeepEmpty([fs EXCEPT ![i] = SumAt(factor, j)],
                                    i, factor, j + 1, var)

\* lines 354-378: the loop over the positions of one factor; the factor read is
\* the one the outer loop took, the list written is the current one.
RECURSIVE SumPositions(_, _, _, _, _)
SumPositions(fs, i, factor, j, var) ==
    IF j > Len(factor.scope) THEN fs
    ELSE IF factor.scope[j] # var \/ i > Len(fs) THEN SumPositions(fs, i, factor, j + 1, var)
    ELSE LET new == SumAt(factor, j)
             fs1 == [fs EXCEPT ![i] = new]
             fs2 == IF Len(new.scope) = 0 THEN DelAt(fs1, i) ELSE fs1
         IN  SumPositions(fs2, i, factor, j + 1, var)

\* lines 352-378: the loop over the list, by index, while the list is changed
RECURSIVE SumLoop(_, _, _)
SumLoop(fs, i, var) ==
    IF i > Len(fs) THEN fs
    ELSE SumLoop(SumPositions(fs, i, fs[i], 1, var), i + 1, var)

\* lines 336-348: the factors that contain var are replaced by their product,
\* appended to the list, when there are at least two of them
MergeStep(var, factors) ==
    LET Has(f)    == var \in Range(f.scope)
        Lacks(f)  == var \notin Range(f.scope)
        pwfactors == SelectSeq(factors, Has)
    IN  IF Len(pwfactors) > 1
        THEN Append(SelectSeq(factors, Lacks),
                    PointwiseAll(pwfactors[1], pwfactors, 2))
        ELSE factors

\* sumout(var, factors)
sumout(var, factors) == SumLoop(MergeStep(var, factors), 1, var)

\* ---------------------------------------------------------------- normalize
\* normalize(dist) for a pair: x * 1/sum(dist); a zero sum raises.
normalize(dist) ==
    IF IsErr(dist[1]) \/ IsErr(dist[2]) THEN [outcome |-> "KeyError", ret |-> <<>>]
    ELSE LET total == RAdd(RAdd(RZero, dist[1]), dist[2]) IN
        IF RIsZero(total) THEN [outcome |-> "ZeroDivisionError", ret |-> <<>>]
        ELSE [outcome |-> "ok",
              ret |-> <<<<dist[1][1] * total[2], dist[1][2] * total[1]>>,
                        <<dist[2][1] * total[2], dist[2][2] * total[1]>>>>]

\* ------------------------------------------------------------- enumeration
\* e[k] = v on a dict
MapSet(e, k, v) == [x \in DOMAIN e \cup {k} |-> IF x = k THEN v ELSE e[x]]

\* writes to a copy that is the original itself (copy = orig)
AliasedWrites(orig, copy) == copy

\* What the mapping `orig` holds after `copy = copy.deepcopy(orig)` and writes
\* to `copy` (lines 395, 427): the copy shares nothing with the original.
AfterCopyWrites(orig, copy) == orig

\* enum_all(variables, e): [ret |-> the probability, e |-> the mapping that was
\* passed in, as the call leaves it]
RECURSIVE enum_all(_, _, _)
enum_all(n, variables, e) ==
    IF Len(variables) = 0 THEN [ret |-> ROne, e |-> e]
    ELSE LET Y == Head(variables) IN
        IF Y \in DOMAIN e THEN
            LET q == querygiven(n, Y, e)
                r == IF IsErr(q) THEN [ret |-> KeyErr, e |-> e]
                     ELSE enum_all(n, Tail(variables), e)
            IN  [ret |-> RMul(q, r.ret), e |-> r.e]
        ELSE
            LET e2t == MapSet(e, Y, TRUE)
                qt  == querygiven(n, Y, e2t)
                rt  == IF IsErr(qt) THEN [ret |-> KeyErr, e |-> e2t]
                       ELSE enum_all(n, Tail(variables), e2t)
                e2f == MapSet(rt.e, Y, FALSE)
                qf  == querygiven(n, Y, e2f)
                rf  == IF IsErr(qf) \/ IsErr(rt.ret) THEN [ret |-> KeyErr, e |-> e2f]
                       ELSE enum_all(n, Tail(variables), e2f)
            IN  [ret |-> RAdd(RAdd(RZero, RMul(qt, rt.ret)), RMul(qf, rf.ret)),
                 e   |-> AfterCopyWrites(e, rf.e)]

\* enum_ask(X, e): the loop over x in [False, True], then normalize
enum_ask(n, X, e) ==
    LET variables == toposort(n)
        ef == MapSet(e, X, FALSE)
        rf == enum_all(n, variables, ef)
        et == MapSet(rf.e, X, TRUE)
        rt == IF IsErr(rf.ret) THEN [ret |-> KeyErr, e |-> et]
              ELSE enum_all(n, variables, et)
        nz == normalize(<<rf.ret, rt.ret>>)
    IN  [outcome |-> nz.outcome, ret |-> nz.ret, e |-> AfterCopyWrites(e, rt.e)]

\* ------------------------------------------------------------- elimination
\* lines 466-470: not eliminated, and every child eliminated
Eligible(n, eliminated) ==
    {v \in DOMAIN n \ eliminated :
        \A k \in 1..Len(n[v].children) : n[v].children[k] \in eliminated}

\* lines 475-477 without the filter `if p not in e` on the parents
factorvarsKeepEvidence(n, v, e) ==
    n[v].parents \o (IF v \notin DOMAIN e THEN <<v>> ELSE <<>>)

\* lines 475-477: the scope of the factor of v
factorvars(n, v, e) ==
    LET NotEvidence(p) == p \notin DOMAIN e IN
    SelectSeq(n[v].parents, NotEvidence)
        \o (IF v \notin DOMAIN e THEN <<v>> ELSE <<>>)

\* line 480: the first of the candidates sorted by (len(factorvars[x]), x)
SelectVar(n, candidates, e) ==
    CHOOSE v \in candidates : \A w \in candidates :
        \/ Len(factorvars(n, v, e)) < Len(factorvars(n, w, e))
        \/ Len(factorvars(n, v, e)) = Len(factorvars(n, w, e)) /\ v <= w

ListRaised(fs) == \E i \in 1..Len(fs) : TableRaised(fs[i].table)

\* lines 510-515: the product of what is left (factors[0] of an empty list
\* raises; <<>> stands for no product)
ElimProduct(factors) ==
    IF Len(factors) = 0 THEN <<>>
    ELSE IF Len(factors) >= 2 THEN PointwiseAll(factors[1], factors, 2)
    ELSE factors[1]

\* lines 510-516: the product of what is left, then normalize
ElimFinish(factors) ==
    IF Len(factors) = 0 THEN [outcome |-> "IndexError", ret |-> <<>>]
    ELSE LET result == ElimProduct(factors)
         IN  IF <<FALSE>> \notin DOMAIN result.table
                \/ <<TRUE>> \notin DOMAIN result.table
                \/ TableRaised(result.table)
             THEN [outcome |-> "KeyError", ret |-> <<>>]
             ELSE normalize(<<result.table[<<FALSE>>], result.table[<<TRUE>>]>>)

\* What the parents list of a node holds after makefactor built
\* allvars = copy.deepcopy(parents) and appended var to it (lines 254-255).
ParentsAfterMakefactor(parents, allvars) == parents

\* lines 457-493: the while loop; trace gets one record per finished iteration
RECURSIVE ElimLoop(_, _, _, _, _, _)
ElimLoop(n, X, e, eliminated, factors, tr) ==
    IF Cardinality(eliminated) >= Cardinality(DOMAIN n) THEN
        LET fin == ElimFinish(factors) IN
        [outcome |-> fin.outcome, ret |-> fin.ret, trace |-> tr, ended |-> TRUE,
         factors |-> factors, net |-> n]
    ELSE IF Eligible(n, eliminated) = {} THEN
        [outcome |-> "IndexError", ret |-> <<>>, trace |-> tr, ended |-> FALSE,
         factors |-> factors, net |-> n]
    ELSE LET var == SelectVar(n, Eligible(n, eliminated), e)
             fv  == factorvars(n, var, e)
             f1  == IF Len(fv) > 0
                    THEN Append(factors, makefactor(n, var, fv, e))
                    ELSE factors
             n2  == IF Len(fv) > 0
                    THEN [n EXCEPT ![var].parents =
                              ParentsAfterMakefactor(@, Append(@, var))]
                    ELSE n
         IN  IF ListRaised(f1) THEN
                 [outcome |-> "KeyError", ret |-> <<>>, trace |-> tr, ended |-> FALSE,
                  factors |-> factors, net |-> n2]
             ELSE LET f2 == IF var # X /\ var \notin DOMAIN e
                            THEN sumout(var, f1) ELSE f1
                  IN  ElimLoop(n2, X, e, eliminated \cup {var}, f2,
                               Append(tr, [var |-> var, factors |-> f2]))

\* elim_ask(X, e)
elim_ask(n, X, e) ==
    IF X \in DOMAIN e THEN
        [outcome |-> "ok",
         ret |-> <<IF e[X] = FALSE THEN ROne ELSE RZero,
                   IF e[X] = TRUE THEN ROne ELSE RZero>>,
         trace |-> <<>>, ended |-> FALSE, factors |-> <<>>, net |-> n]
    ELSE ElimLoop(n, X, e, {}, <<>>, <<>>)

\* ------------------------------------------------------- the callers' inputs
Quarter == <<1, 4>>

\* the probability lists of a length a caller passes: 1/4 everywhere, or 0 for
\* the last row (all parents false) and 1/4 for the others
ProbSeqs(len) ==
    {[i \in 1..len |-> Quarter],
     [i \in 1..len |-> IF i = len THEN <<0, 4>> ELSE Quarter]}

\* the lists a caller passes for k parents: the right length, one entry short,
\* one entry long
ListSpecs(k) ==
    {[type |-> "list", v |-> s] : s \in ProbSeqs(Pow2(k))}
    \cup {[type |-> "list", v |-> [i \in 1..len |-> Quarter]] :
             len \in {Pow2(k) - 1, Pow2(k) + 1}}

\* a row with one truth value too many
WrongKey(k) == [j \in 1..(k + 1) |-> TRUE]

AllFalse(k) == [j \in 1..k |-> FALSE]

\* the dicts a caller passes for k parents: every assignment; the all-false row
\* replaced by a row of the wrong width; the all-false row missing
DictSpecs(k) ==
    LET all == genpermutations(k)
        tt  == TruthTable(k)
    IN
    {[type |-> "dict", v |-> [key \in all |-> s[CHOOSE i \in 1..Pow2(k) : tt[i] = key]]] :
        s \in ProbSeqs(Pow2(k))}
    \cup {[type |-> "dict",
           v |-> [key \in (all \ {AllFalse(k)}) \cup {WrongKey(k)} |-> Quarter]]}
    \cup {[type |-> "dict", v |-> [key \in all \ {AllFalse(k)} |-> Quarter]]}

\* whether a spec has an entry for each of the 2^k assignments
Complete(spec, k) ==
    IF spec.type = "scalar" THEN k = 0
    ELSE IF spec.type = "list" THEN Len(spec.v) = Pow2(k)
    ELSE genpermutations(k) \subseteq DOMAIN spec.v

\* evidence mappings over the variables of the net
Evidences(n) ==
    UNION {[S -> BOOLEAN] : S \in {T \in SUBSET DOMAIN n : Cardinality(T) <= MaxEvidence}}

\* ------------------------------------------------------------------ actions
Init ==
    /\ net = EmptyMap
    /\ op = "idle"
    /\ call = EmptyMap
    /\ outcome = "ok"
    /\ ret = <<>>
    /\ before = EmptyMap
    /\ callerE = EmptyMap
    /\ trace = <<>>
    /\ final = NoFinal

\* The entries of children lists that no stored node accounts for: what calls
\* of addNode that raised have left behind.
RECURSIVE SumLen(_, _)
SumLen(n, S) ==
    IF S = {} THEN 0
    ELSE LET v == Min(S) IN Len(n[v].children) + SumLen(n, S \ {v})

Dangling(n) ==
    SumLen(n, DOMAIN n)
        - Cardinality({pc \in (DOMAIN n) \X (DOMAIN n) : pc[1] \in Range(n[pc[2]].parents)})

\* one call of addNode, with the net it leaves; the caller goes on building
\* while fewer than MaxDangling such entries exist
AddNodeCall(name, parents, spec) ==
    LET r == addNode(net, name, parents, spec) IN
    /\ op = "idle"
    /\ Dangling(net) < MaxDangling
    /\ net' = r.net
    /\ op' = "addNode"
    /\ call' = [name |-> name, parents |-> parents,
                complete |-> Complete(spec, Len(parents))]
    /\ outcome' = r.outcome
    /\ ret' = <<>>
    /\ before' = net
    /\ callerE' = EmptyMap
    /\ trace' = <<>>
    /\ final' = NoFinal

\* addNode(name, None, prob)
AddRoot ==
    \E name \in Names \ DOMAIN net, p \in Probs :
        AddNodeCall(name, <<>>, [type |-> "scalar", v |-> p])

\* addNode(name, parents, [p, ...])
AddWithList ==
    \E name \in Names \ DOMAIN net, parents \in InjSeqs(Names, MaxParents) :
        /\ Len(parents) > 0
        /\ \E spec \in ListSpecs(Len(parents)) : AddNodeCall(name, parents, spec)

\* addNode(name, parents, {(..): p, ...})
AddWithDict ==
    \E name \in Names \ DOMAIN net, parents \in InjSeqs(Names, MaxParents) :
        /\ Len(parents) > 0
        /\ \E spec \in DictSpecs(Len(parents)) : AddNodeCall(name, parents, spec)

TopoSort ==
    /\ op = "idle"
    /\ net # EmptyMap
    /\ op' = "toposort"
    /\ call' = EmptyMap
    /\ outcome' = "ok"
    /\ ret' = toposort(net)
    /\ before' = net
    /\ callerE' = EmptyMap
    /\ trace' = <<>>
    /\ final' = NoFinal
    /\ UNCHANGED net

EnumAsk ==
    \E X \in DOMAIN net, e \in Evidences(net) :
        LET r == enum_ask(net, X, e) IN
        /\ op = "idle"
        /\ op' = "enum_ask"
        /\ call' = [X |-> X, e |-> e]
        /\ outcome' = r.outcome
        /\ ret' = r.ret
        /\ before' = net
        /\ callerE' = r.e
        /\ trace' = <<>>
        /\ final' = NoFinal
        /\ UNCHANGED net

\* enum_all(variables, e) on the sorted variables, as enum_ask calls it
EnumAll ==
    \E e \in Evidences(net) :
        LET r == enum_all(net, toposort(net), e) IN
        /\ op = "idle"
        /\ net # EmptyMap
        /\ op' = "enum_all"
        /\ call' = [X |-> 0, e |-> e]
        /\ outcome' = IF IsErr(r.ret) THEN "KeyError" ELSE "ok"
        /\ ret' = <<r.ret>>
        /\ before' = net
        /\ callerE' = r.e
        /\ trace' = <<>>
        /\ final' = NoFinal
        /\ UNCHANGED net

ElimAsk ==
    \E X \in DOMAIN net, e \in Evidences(net) :
        LET r == elim_ask(net, X, e) IN
        /\ op = "idle"
        /\ op' = "elim_ask"
        /\ call' = [X |-> X, e |-> e]
        /\ outcome' = r.outcome
        /\ ret' = r.ret
        /\ before' = net
        /\ callerE' = e
        /\ trace' = r.trace
        /\ final' = [ended |-> r.ended,
                     factors |-> IF r.ended THEN r.factors ELSE <<>>,
                     result |-> IF r.ended THEN ElimProduct(r.factors) ELSE <<>>]
        /\ net' = r.net

\* the caller has looked at the result of the call and is ready for the next
Return ==
    /\ op # "idle"
    /\ op' = "idle"
    /\ call' = EmptyMap
    /\ outcome' = "ok"
    /\ ret' = <<>>
    /\ before' = EmptyMap
    /\ callerE' = EmptyMap
    /\ trace' = <<>>
    /\ final' = NoFinal
    /\ UNCHANGED net

Next ==
    \/ AddRoot \/ AddWithList \/ AddWithDict \/ TopoSort
    \/ EnumAll \/ EnumAsk \/ ElimAsk \/ Return

\* construction alone
NextBuild == AddRoot \/ AddWithList \/ AddWithDict \/ Return

SpecBuild == Init /\ [][NextBuild]_vars

Spec == Init /\ [][Next]_vars

\* -------------------------------------------------- sumout as a function
\* the number a boolean tuple spells, first position least significant
RECURSIVE TupleIndex(_, _)
TupleIndex(t, k) ==
    IF k > Len(t) THEN 0
    ELSE (IF t[k] THEN Pow2(k - 1) ELSE 0) + TupleIndex(t, k + 1)

\* total factors over the non-empty sorted scopes: the table of a seed holds
\* seed, seed + 1, ... in the order of the tuples
TotalFactors ==
    {Factor(SortedSeq(S), [t \in genpermutations(Cardinality(S)) |->
                              <<seed + TupleIndex(t, 1), 1>>]) :
        S \in (SUBSET Names) \ {{}}, seed \in 1..MaxSeed}

FactorLists == UNION {[1..len -> TotalFactors] : len \in 0..MaxFactors}

InitSumout ==
    /\ net = EmptyMap
    /\ op = "idle"
    /\ \E fs \in FactorLists : call = [var |-> 0, factors |-> fs]
    /\ outcome = "ok"
    /\ ret = <<>>
    /\ before = EmptyMap
    /\ callerE = EmptyMap
    /\ trace = <<>>
    /\ final = NoFinal

\* sumout(var, factors) on the list drawn
SumoutCall ==
    \E var \in Names :
        /\ op = "idle"
        /\ op' = "sumout"
        /\ call' = [call EXCEPT !.var = var]
        /\ ret' = sumout(var, call.factors)
        /\ UNCHANGED <<net, outcome, before, callerE, trace, final>>

NextSumout == SumoutCall

SpecSumout == InitSumout /\ [][NextSumout]_vars

\* ------------------------------------------------ pointwise as a function
\* total factors over the sorted scopes, the empty one included
PointwiseFactors ==
    {Factor(SortedSeq(S), [t \in genpermutations(Cardinality(S)) |->
                              <<seed + TupleIndex(t, 1), 1>>]) :
        S \in SUBSET Names, seed \in 1..MaxSeed}

\* What an argument of pointwise holds when it returns: lines 304-308 build
\* newvariables as a list of its own, and lines 310-320 only read the factors.
ArgAfterPointwise(factor, newvariables) == factor

InitPointwise ==
    /\ net = EmptyMap
    /\ op = "idle"
    /\ \E A \in PointwiseFactors, B \in PointwiseFactors :
           call = [factor1 |-> A, factor2 |-> B]
    /\ outcome = "ok"
    /\ ret = <<>>
    /\ before = EmptyMap
    /\ callerE = EmptyMap
    /\ trace = <<>>
    /\ final = NoFinal

\* pointwise(_, factor1, factor2) and pointwise(_, factor2, factor1) on the
\* pair drawn; call holds the two arguments as the calls leave them
PointwiseCall ==
    LET ab == pointwise(call.factor1, call.factor2)
        ba == pointwise(call.factor2, call.factor1)
    IN  /\ op = "idle"
        /\ op' = "pointwise"
        /\ before' = call
        /\ call' = [factor1 |-> ArgAfterPointwise(call.factor1, ab.scope),
                    factor2 |-> ArgAfterPointwise(call.factor2, ab.scope)]
        /\ ret' = [ab |-> ab, ba |-> ba]
        /\ UNCHANGED <<net, outcome, callerE, trace, final>>

NextPointwise == PointwiseCall

SpecPointwise == InitPointwise /\ [][NextPointwise]_vars

\* ============================================================== the claims
\* every node with parents has a CPT entry for each assignment of its parents
CPTsTotal(n) ==
    \A v \in DOMAIN n :
        Len(n[v].parents) >= 1 =>
            genpermutations(Len(n[v].parents)) \subseteq DOMAIN n[v].condprob

\* the children lists are the reverse of the parents lists
ChildrenMatch(n) ==
    \A v \in DOMAIN n :
        /\ Range(n[v].children) = {c \in DOMAIN n : v \in Range(n[c].parents)}
        /\ Len(n[v].children) = Cardinality(Range(n[v].children))

WellFormed(n) == CPTsTotal(n) /\ ChildrenMatch(n)

\* P(v = a[v] | parents as in a), for a complete assignment a of a well-formed net
CondP(n, v, a) ==
    LET p == IF Len(n[v].parents) = 0 THEN n[v].prob
             ELSE n[v].condprob[[k \in 1..Len(n[v].parents) |-> a[n[v].parents[k]]]]
    IN  IF a[v] THEN p ELSE RCompl(p)

\* the joint probability of the evidence e is zero: every complete assignment
\* that extends e has a factor 0 in its product
JointZero(n, e) ==
    \A a \in [DOMAIN n -> BOOLEAN] :
        (\A v \in DOMAIN e : a[v] = e[v]) => \E v \in DOMAIN n : RIsZero(CondP(n, v, a))

SameDist(d1, d2) == REq(d1[1], d2[1]) /\ REq(d1[2], d2[2])

IsQuery == op \in {"enum_ask", "elim_ask"}

\* C1: on a well-formed model, for evidence of nonzero joint probability
\* (evidence that assigns X included), elim_ask(X, e) returns the pair that
\* enum_ask(X, e) returns.
C1_Agreement ==
    (op = "elim_ask" /\ WellFormed(before) /\ ~JointZero(before, call.e)) =>
        LET en == enum_ask(before, call.X, call.e) IN
        /\ outcome = "ok"
        /\ en.outcome = "ok"
        /\ SameDist(ret, en.ret)

\* C1, for the queries whose variable is not in the evidence: the two agree.
C1_AgreementUnassigned ==
    (op = "elim_ask" /\ WellFormed(before) /\ ~JointZero(before, call.e)
        /\ call.X \notin DOMAIN call.e) =>
        LET en == enum_ask(before, call.X, call.e) IN
        /\ outcome = "ok"
        /\ en.outcome = "ok"
        /\ SameDist(ret, en.ret)

\* C2: on a well-formed model, with X not in e and e of joint probability zero,
\* enum_ask and elim_ask both end in the division by zero of normalize.
C2_DegenerateRaises ==
    (IsQuery /\ WellFormed(before) /\ call.X \notin DOMAIN call.e
        /\ JointZero(before, call.e)) =>
        outcome = "ZeroDivisionError"

\* C2, for enum_ask alone
C2_EnumRaises ==
    (op = "enum_ask" /\ WellFormed(before) /\ call.X \notin DOMAIN call.e
        /\ JointZero(before, call.e)) =>
        outcome = "ZeroDivisionError"

\* C3: an addNode call that fails leaves the model as it was before the call.
C3_FailedAddNodeLeavesModel ==
    (op = "addNode" /\ outcome # "ok") => net = before

\* C3, for the calls that fail on the length of the probability collection
C3_WrongLengthLeavesModel ==
    (op = "addNode" /\ outcome = "AssertionError") => net = before

\* C4: every stored node with k >= 1 parents has a CPT entry for each of the
\* 2^k assignments, and an addNode call whose spec lacks one fails and stores
\* no node.
C4_TotalCPT ==
    /\ CPTsTotal(net)
    /\ (op = "addNode" /\ Len(call.parents) >= 1 /\ ~call.complete) =>
            (outcome # "ok" /\ call.name \notin DOMAIN net)

\* the variables toposort may place at position i of l: not placed before i,
\* all parents placed before i
EligibleAt(n, l, i) ==
    {v \in DOMAIN n \ {l[j] : j \in 1..(i - 1)} :
        Range(n[v].parents) \subseteq {l[j] : j \in 1..(i - 1)}}

\* C5: at every position of the list toposort returns stands the
\* alphabetically smallest of the variables eligible at that position.
C5_AlphabeticalTieBreak ==
    op = "toposort" =>
        \A i \in 1..Len(ret) : ret[i] = Min(EligibleAt(net, ret, i))

\* C6: toposort terminates and returns every variable of the model exactly
\* once, each after all of its parents.
C6_TopoOrder ==
    op = "toposort" =>
        /\ ret # Diverges
        /\ Len(ret) = Cardinality(DOMAIN net)
        /\ Range(ret) = DOMAIN net
        /\ \A i \in 1..Len(ret) :
              \A p \in Range(net[ret[i]].parents) : \E j \in 1..(i - 1) : ret[j] = p

\* a model of three variables whose alphabetically first one has a parent
C6_Witness ==
    /\ op = "toposort"
    /\ Cardinality(DOMAIN net) = NumNames
    /\ Len(net[1].parents) >= 1
    /\ \E v \in DOMAIN net : Len(net[v].parents) >= 2
    /\ Len(ret) = NumNames

\* C7: a call of enum_ask, enum_all or elim_ask leaves the caller's evidence
\* mapping and every node of the model as they were before the call.
C7_Frame ==
    op \in {"enum_ask", "enum_all", "elim_ask"} =>
        /\ callerE = call.e
        /\ DOMAIN callerE = DOMAIN call.e
        /\ net = before

\* enum_ask hypothesised a value for a query variable the evidence lacks, and
\* enum_all branched on a hidden variable
C7_Witness ==
    /\ op = "enum_ask"
    /\ outcome = "ok"
    /\ call.X \notin DOMAIN call.e
    /\ DOMAIN call.e # {}
    /\ Cardinality(DOMAIN net) > Cardinality(DOMAIN call.e) + 1
    /\ callerE = call.e

\* C8: with X not in e, the loop of elim_ask ends after one iteration per
\* variable, and the variables it eliminated are all the variables, each after
\* all of its children.  (Stated for models whose CPTs are total.)
C8_EliminationOrder ==
    (op = "elim_ask" /\ call.X \notin DOMAIN call.e /\ CPTsTotal(before)) =>
        /\ Len(trace) = Cardinality(DOMAIN before)
        /\ {trace[i].var : i \in 1..Len(trace)} = DOMAIN before
        /\ \A i \in 1..Len(trace) :
              \A c \in Range(before[trace[i].var].children) :
                  \E j \in 1..(i - 1) : trace[j].var = c

\* the hidden variables summed out in the iterations 1..i
SummedOut(i) ==
    {trace[j].var : j \in {k \in 1..i :
        trace[k].var # call.X /\ trace[k].var \notin DOMAIN call.e}}

FactorOk(f, i) ==
    /\ Len(f.scope) >= 1
    /\ \A k \in 1..(Len(f.scope) - 1) : f.scope[k] < f.scope[k + 1]
    /\ Range(f.scope) \cap DOMAIN call.e = {}
    /\ Range(f.scope) \cap SummedOut(i) = {}
    /\ DOMAIN f.table = genpermutations(Len(f.scope))

\* C9: at the end of every iteration of the loop of elim_ask every factor of
\* the working list has a non-empty, sorted, duplicate-free scope without
\* evidence variables and without summed-out variables, and a table with
\* exactly one entry for each boolean tuple over the scope.
C9_FactorInvariant ==
    op = "elim_ask" =>
        \A i \in 1..Len(trace) :
            \A k \in 1..Len(trace[i].factors) : FactorOk(trace[i].factors[k], i)

\* an elimination with evidence, three iterations, a factor over two variables
\* at some point and a sum-out that dropped or shrank a factor
C9_Witness ==
    /\ op = "elim_ask"
    /\ outcome = "ok"
    /\ DOMAIN call.e # {}
    /\ Len(trace) = NumNames
    /\ \E i \in 1..Len(trace) : \E k \in 1..Len(trace[i].factors) :
          Len(trace[i].factors[k].scope) >= 2
    /\ \E i \in 2..Len(trace) : Len(trace[i].factors) < Len(trace[i - 1].factors)

\* how often g stands in the list fs
Count(fs, g) == Cardinality({k \in 1..Len(fs) : fs[k] = g})

\* the product, at the assignment asg, of the entries of the factors fs[i..]
RECURSIVE EntryProduct(_, _, _)
EntryProduct(fs, asg, i) ==
    IF i > Len(fs) THEN 1
    ELSE fs[i].table[Project(asg, fs[i].scope)][1] * EntryProduct(fs, asg, i + 1)

\* the factor the claim describes: over the union of the scopes of fs without
\* var, each entry the sum over var of the product of the entries of fs
Marginal(fs, var) ==
    LET vs    == UNION {Range(fs[i].scope) : i \in 1..Len(fs)}
        scope == SortedSeq(vs \ {var})
    IN  Factor(scope,
               [t \in genpermutations(Len(scope)) |->
                   LET asg(b) == [v \in vs |-> IF v = var THEN b
                                     ELSE t[CHOOSE k \in 1..Len(scope) : scope[k] = v]]
                   IN  <<EntryProduct(fs, asg(TRUE), 1) + EntryProduct(fs, asg(FALSE), 1), 1>>])

PosIn(scope, v) == CHOOSE k \in 1..Len(scope) : scope[k] = v

\* an assignment to the scope `union`, read at the names of `scope`
Restrict(t, union, scope) == [k \in 1..Len(scope) |-> t[PosIn(union, scope[k])]]

\* C11: for total factors A and B, pointwise(_, A, B) has the alphabetically
\* sorted duplicate-free union of the two scopes as its scope, one entry for
\* each of the 2^|union| assignments, each entry the product of A's and B's
\* entries at the projected assignment; pointwise(_, B, A) is the same factor,
\* and A and B are as they were.
C11_Pointwise ==
    op = "pointwise" =>
        LET A == before.factor1
            B == before.factor2
            U == Range(A.scope) \cup Range(B.scope)
            R == ret.ab
        IN  /\ Len(R.scope) = Cardinality(U)
            /\ Range(R.scope) = U
            /\ \A k \in 1..(Len(R.scope) - 1) : R.scope[k] < R.scope[k + 1]
            /\ DOMAIN R.table = [1..Cardinality(U) -> BOOLEAN]
            /\ \A t \in DOMAIN R.table :
                   R.table[t] = RMul(A.table[Restrict(t, R.scope, A.scope)],
                                     B.table[Restrict(t, R.scope, B.scope)])
            /\ ret.ba.scope = R.scope
            /\ \A t \in DOMAIN R.table : ret.ba.table[t] = R.table[t]
            /\ DOMAIN ret.ba.table = DOMAIN R.table
            /\ call.factor1 = A
            /\ call.factor2 = B

\* C11 witness: the product of two different factors whose scopes overlap in
\* one name and have one name each of their own, the later name first
C11_Witness ==
    /\ op = "pointwise"
    /\ before.factor1.scope = <<2, 3>>
    /\ before.factor2.scope = <<1, 2>>
    /\ before.factor1.table[<<TRUE, FALSE>>] # before.factor2.table[<<TRUE, FALSE>>]
    /\ ret.ab.scope = <<1, 2, 3>>
    /\ Cardinality(DOMAIN ret.ab.table) = 8
    /\ Cardinality({ret.ab.table[t] : t \in DOMAIN ret.ab.table}) > 4

\* C12: in elim_ask(X, e) with X a variable of the model and not in e, when
\* the elimination loop has ended the factor list is not empty, every factor
\* left has scope exactly [X], and the final product is one factor over [X]
\* with entries for (False,) and (True,); so line 516 raises neither
\* IndexError nor KeyError.
C12_FinalFactors ==
    (op = "elim_ask" /\ call.X \in DOMAIN before /\ call.X \notin DOMAIN call.e
        /\ final.ended) =>
        /\ Len(final.factors) > 0
        /\ \A i \in 1..Len(final.factors) : final.factors[i].scope = <<call.X>>
        /\ final.result.scope = <<call.X>>
        /\ DOMAIN final.result.table = {<<FALSE>>, <<TRUE>>}
        /\ outcome \notin {"IndexError", "KeyError"}

\* C12 witness: the loop of elim_ask(X, e) ended on a model of three
\* variables where e holds a parent of X and a child of X, and two factors
\* were left to multiply
C12_Witness ==
    /\ op = "elim_ask"
    /\ final.ended
    /\ call.X \notin DOMAIN call.e
    /\ Cardinality(DOMAIN before) = 3
    /\ \E p \in DOMAIN call.e : p \in Range(before[call.X].parents)
    /\ \E c \in DOMAIN call.e : call.X \in Range(before[c].parents)
    /\ Len(final.factors) >= 2
    /\ final.result.scope = <<call.X>>

\* C12 witness of the other kind: the loop ended with no evidence and a hidden
\* parent and a hidden child of X summed out
C12_WitnessHidden ==
    /\ op = "elim_ask"
    /\ final.ended
    /\ call.e = EmptyMap
    /\ before[call.X].parents # <<>>
    /\ \E c \in DOMAIN before : call.X \in Range(before[c].parents)
    /\ final.result.scope = <<call.X>>

====
